---- MODULE Spec2Model ----
(***************************************************************************)
(* A model of clippy.py: the rule-based IntentDetector, the streaming chat *)
(* client OllamaChat, the ActionExecutor dispatch and the ChatWindow that  *)
(* arbitrates, per turn, between locally detected actions and the action   *)
(* markers of the assistant's reply.                                       *)
(*                                                                         *)
(* Texts are TLA+ strings; a character is a string of length one.  The     *)
(* paperclip glyph that prefixes a reply bubble is written "&".            *)
(***************************************************************************)
EXTENDS Integers, Sequences, FiniteSets, TLC

(***************************************************************************)
(* Bounds of the model.                                                    *)
(***************************************************************************)
\* sends accepted in one behaviour (one stream thread per accepted send)
MaxTurns == 2
\* lines the backend yields in one behaviour, over all its responses
MaxRecords == 2
\* failures of the backend, the network or an action handler in one behaviour
MaxFaults == 1
\* times the user stops, clears or closes in one behaviour
MaxInterrupts == 1
\* lines the backend yields to a stream call examined on its own
MaxStreamRecords == 3
\* pieces (texts and markers) of a reply examined on its own
MaxSegments == 2
\* entries of a list of actions examined on its own
MaxActions == 2
\* the most files glob may find in one directory
MaxFound == 25
\* lines the backend delivers while the window is kept open
MaxLiveRecords == 1

(***************************************************************************)
(* Strings (str methods and the regular-expression primitives used).       *)
(***************************************************************************)
Char(s, i) == SubSeq(s, i, i)

\* s[i:] of Python, 1-based
From(s, i) == SubSeq(s, i, Len(s))

\* s.startswith(p) at position i
StartsWithAt(s, p, i) == i + Len(p) - 1 <= Len(s) /\ SubSeq(s, i, i + Len(p) - 1) = p

StartsWith(s, p) == StartsWithAt(s, p, 1)

\* p in s
Contains(s, p) == \E i \in 1..(Len(s) + 1) : StartsWithAt(s, p, i)

\* \s of the regular expressions, str.strip(): the whitespace a
\* single-line entry or a reply can hold
IsSpace(c) == c \in {" ", "\t"}

LowerCase == "abcdefghijklmnopqrstuvwxyz"

UpperCase == "ABCDEFGHIJKLMNOPQRSTUVWXYZ"

Digits == "0123456789"

\* \w of the regular expressions
IsWord(c) == Len(c) = 1 /\ (Contains(LowerCase, c) \/ Contains(UpperCase, c)
                              \/ Contains(Digits, c) \/ c = "_")

LowerChar(c) ==
    IF Contains(UpperCase, c)
    THEN LET i == CHOOSE k \in 1..26 : Char(UpperCase, k) = c IN Char(LowerCase, i)
    ELSE c

UpperChar(c) ==
    IF Contains(LowerCase, c)
    THEN LET i == CHOOSE k \in 1..26 : Char(LowerCase, k) = c IN Char(UpperCase, i)
    ELSE c

RECURSIVE lower(_)
\* str.lower()
lower(s) == IF s = "" THEN "" ELSE LowerChar(Head(s)) \o lower(Tail(s))

RECURSIVE upper(_)
\* str.upper()
upper(s) == IF s = "" THEN "" ELSE UpperChar(Head(s)) \o upper(Tail(s))

RECURSIVE lstrip(_)
lstrip(s) == IF s # "" /\ IsSpace(Head(s)) THEN lstrip(Tail(s)) ELSE s

RECURSIVE rstrip(_)
rstrip(s) ==
    IF s # "" /\ IsSpace(Char(s, Len(s))) THEN rstrip(SubSeq(s, 1, Len(s) - 1)) ELSE s

\* str.strip()
strip(s) == rstrip(lstrip(s))

RECURSIVE rstrip_dot(_)
\* str.rstrip('.')
rstrip_dot(s) ==
    IF s # "" /\ Char(s, Len(s)) = "." THEN rstrip_dot(SubSeq(s, 1, Len(s) - 1)) ELSE s

\* the first position >= i of s holding character c, 0 when there is none
IndexFrom(s, c, i) ==
    IF \E k \in i..Len(s) : Char(s, k) = c
    THEN CHOOSE k \in i..Len(s) : Char(s, k) = c /\ \A j \in i..(k - 1) : Char(s, j) # c
    ELSE 0

RECURSIVE join(_)
\* "".join(parts)
join(parts) == IF parts = <<>> THEN "" ELSE Head(parts) \o join(Tail(parts))

(***************************************************************************)
(* Action markers of a reply: ChatWindow._finish_and_run_actions and       *)
(* ChatWindow._execute_actions.                                            *)
(***************************************************************************)
\* the glyph and two blanks _add_bubble puts before a reply's text
PREFIX == "&  "

TAG == "[ACTION:"

\* the end of a match of \[ACTION:[^\]]{min,}\] that starts at i, 0 when none:
\* the body runs to the first "]" and holds at least min characters
TagEnd(s, i, min) ==
    IF ~StartsWithAt(s, TAG, i) THEN 0
    ELSE LET j == IndexFrom(s, "]", i + Len(TAG))
         IN IF j = 0 \/ j - (i + Len(TAG)) < min THEN 0 ELSE j

RECURSIVE SubFrom(_, _)
SubFrom(s, i) ==
    IF i > Len(s) THEN ""
    ELSE LET j == TagEnd(s, i, 0)
         IN IF j = 0 THEN Char(s, i) \o SubFrom(s, i + 1) ELSE SubFrom(s, j + 1)

\* re.sub(r'\[ACTION:[^\]]*\]', '', s)
sub_action_tags(s) == SubFrom(s, 1)

RECURSIVE FindFrom(_, _)
FindFrom(s, i) ==
    IF i > Len(s) THEN <<>>
    ELSE LET j == TagEnd(s, i, 1)
         IN IF j = 0 THEN FindFrom(s, i + 1)
            ELSE <<SubSeq(s, i + Len(TAG), j - 1)>> \o FindFrom(s, j + 1)

\* re.findall(r'\[ACTION:([^\]]+)\]', s): the bodies, in order of appearance
findall_action_tags(s) == FindFrom(s, 1)

\* the label's text without the prefix _add_bubble put before it
full_text_of(label) == IF StartsWith(label, PREFIX) THEN From(label, Len(PREFIX) + 1) ELSE label

\* the text _finish_and_run_actions leaves in the reply bubble
label_after_finish(label) ==
    LET clean == strip(sub_action_tags(full_text_of(label)))
    IN IF clean # "" THEN PREFIX \o clean ELSE label

\* the marker bodies _finish_and_run_actions hands to _execute_actions
actions_of(label, fired) ==
    IF fired THEN <<>> ELSE findall_action_tags(full_text_of(label))

\* a dispatch that would hand on the two sides of the first bar as they are written
parse_action_Raw(action_str) ==
    LET k == IndexFrom(action_str, "|", 1)
    IN IF k = 0
       THEN [cmd |-> action_str, arg |-> ""]
       ELSE [cmd |-> SubSeq(action_str, 1, k - 1), arg |-> From(action_str, k + 1)]

\* action_str.split("|", 1) and the two strips of _execute_actions
parse_action(action_str) ==
    LET k == IndexFrom(action_str, "|", 1)
    IN IF k = 0
       THEN [cmd |-> upper(strip(action_str)), arg |-> ""]
       ELSE [cmd |-> upper(strip(SubSeq(action_str, 1, k - 1))),
             arg |-> strip(From(action_str, k + 1))]

(***************************************************************************)
(* IntentDetector: the static tables and detect.                           *)
(***************************************************************************)
\* IntentDetector.SITES, in the order of the dict literal
SITES ==
    << <<"youtube", "https://www.youtube.com">>, <<"yt", "https://www.youtube.com">>,
       <<"google", "https://www.google.com">>, <<"gmail", "https://mail.google.com">>,
       <<"github", "https://github.com">>, <<"reddit", "https://www.reddit.com">>,
       <<"twitter", "https://twitter.com">>, <<"x", "https://twitter.com">>,
       <<"facebook", "https://www.facebook.com">>,
       <<"instagram", "https://www.instagram.com">>,
       <<"linkedin", "https://www.linkedin.com">>, <<"twitch", "https://www.twitch.tv">>,
       <<"netflix", "https://www.netflix.com">>, <<"amazon", "https://www.amazon.com">>,
       <<"wikipedia", "https://www.wikipedia.org">>,
       <<"stackoverflow", "https://stackoverflow.com">>,
       <<"stack overflow", "https://stackoverflow.com">>,
       <<"whatsapp web", "https://web.whatsapp.com">>,
       <<"chatgpt", "https://chat.openai.com">>, <<"spotify", "https://open.spotify.com">> >>

\* IntentDetector.APPS: a set literal, listed here in the order it is written
APPS ==
    << "chrome", "google chrome", "firefox", "edge", "brave",
       "notepad", "calculator", "calc", "explorer", "file explorer",
       "cmd", "terminal", "powershell", "spotify",
       "code", "vscode", "vs code", "visual studio code",
       "paint", "word", "excel", "powerpoint",
       "discord", "slack", "teams", "obs", "vlc",
       "task manager", "control panel", "settings",
       "snipping tool", "whatsapp" >>

\* the orders in which a process may iterate the set APPS: the order of a set of
\* strings follows their hashes, which differ from one process to the next
APP_ORDERS == {APPS, [i \in 1..Len(APPS) |-> APPS[Len(APPS) + 1 - i]]}

\* os.path.expanduser("~")
HOME == "/home/user"

\* IntentDetector.FOLDERS, in the order of the dict literal
FOLDERS ==
    << <<"desktop", HOME \o "/Desktop">>, <<"documents", HOME \o "/Documents">>,
       <<"downloads", HOME \o "/Downloads">>, <<"pictures", HOME \o "/Pictures">>,
       <<"music", HOME \o "/Music">>, <<"videos", HOME \o "/Videos">>,
       <<"home", HOME>> >>

\* os.path.expanduser(path)
expanduser(path) ==
    IF path = "~" \/ StartsWith(path, "~/") THEN HOME \o From(path, 2) ELSE path

RECURSIVE SkipWs(_, _)
\* the position after the run of whitespace that starts at i
SkipWs(s, i) == IF i <= Len(s) /\ IsSpace(Char(s, i)) THEN SkipWs(s, i + 1) ELSE i

RECURSIVE WordsEnd(_, _, _)
\* words joined by \s+, matched at i: the position after the last word, 0 when no match
WordsEnd(s, words, i) ==
    IF ~StartsWithAt(s, Head(words), i) THEN 0
    ELSE LET e == i + Len(Head(words))
         IN IF Len(words) = 1 THEN e
            ELSE IF SkipWs(s, e) = e THEN 0 ELSE WordsEnd(s, Tail(words), SkipWs(s, e))

\* re.match(r'(?:v1|v2|...)\s+(.+)', s): the position where what follows the
\* verb and its whitespace starts, 0 when no alternative matches.  The
\* alternatives are tried in order; one matches when whitespace and at
\* least one more character follow it.
AfterVerb(s, verbs) ==
    LET ok(k) == LET e == WordsEnd(s, verbs[k], 1)
                 IN e # 0 /\ SkipWs(s, e) > e /\ SkipWs(s, e) <= Len(s)
        ks == {k \in 1..Len(verbs) : ok(k)}
    IN IF ks = {} THEN 0
       ELSE LET k == CHOOSE m \in ks : \A n \in ks : m <= n
            IN SkipWs(s, WordsEnd(s, verbs[k], 1))

\* (?:word\s+)? at i: the position after the group, i when it does not match
OptWord(s, word, i) ==
    LET e == i + Len(word)
    IN IF StartsWithAt(s, word, i) /\ SkipWs(s, e) > e THEN SkipWs(s, e) ELSE i

\* \b at the gap before position i
Boundary(s, i) ==
    LET before == i > 1 /\ IsWord(Char(s, i - 1))
        after == i <= Len(s) /\ IsWord(Char(s, i))
    IN before # after

\* \bword\b matches at i
WordAt(s, word, i) ==
    StartsWithAt(s, word, i) /\ Boundary(s, i) /\ Boundary(s, i + Len(word))

\* re.search(r'\b(w1|w2|...)\b', s)
HasWord(s, words) == \E w \in words : \E i \in 1..Len(s) : WordAt(s, w, i)

\* \b(screenshot|screen\s*shot|screen\s*cap|captura)\b matches at i
NounAt(s, i) ==
    /\ Boundary(s, i)
    /\ \/ StartsWithAt(s, "screenshot", i) /\ Boundary(s, i + 10)
       \/ StartsWithAt(s, "captura", i) /\ Boundary(s, i + 7)
       \/ /\ StartsWithAt(s, "screen", i)
          /\ LET j == SkipWs(s, i + 6)
             IN \/ StartsWithAt(s, "shot", j) /\ Boundary(s, j + 4)
                \/ StartsWithAt(s, "cap", j) /\ Boundary(s, j + 3)

\* the two re.search of the screenshot rule
IsScreenshot(s) ==
    \/ \E w \in {"take", "capture", "grab", "do"} : \E i \in 1..Len(s) :
          WordAt(s, w, i) /\ \E j \in (i + Len(w))..Len(s) : NounAt(s, j)
    \/ HasWord(s, {"screenshot"})

\* (?:\s+on\s+.+)$ matches all of t
OnPart(t) ==
    LET a == SkipWs(t, 1)
    IN a > 1 /\ StartsWithAt(t, "on", a) /\ SkipWs(t, a + 2) > a + 2 /\ Len(t) >= a + 3

\* (?:\s+files?)?(?:\s+on\s+.+)?$ matches all of t
FindSuffix(t) ==
    \/ t = ""
    \/ OnPart(t)
    \/ LET a == SkipWs(t, 1)
       IN a > 1 /\ \E w \in {"file", "files"} :
            StartsWithAt(t, w, a)
            /\ LET rest == From(t, a + Len(w)) IN rest = "" \/ OnPart(rest)

\* group 1 of the file-find pattern for what follows the verb: the optional
\* words are taken when present, the lazy group is the shortest that lets
\* the rest of the pattern reach the end of the text
FindGroup(s, p) ==
    LET p1 == OptWord(s, "my", p)
        p2 == IF OptWord(s, "files", p1) # p1 THEN OptWord(s, "files", p1)
              ELSE OptWord(s, "file", p1)
        p3 == IF OptWord(s, "called", p2) # p2 THEN OptWord(s, "called", p2)
              ELSE OptWord(s, "named", p2)
        r  == From(s, p3)
        n  == CHOOSE m \in 1..Len(r) :
                 /\ FindSuffix(From(r, m + 1))
                 /\ \A k \in 1..(m - 1) : ~FindSuffix(From(r, k + 1))
    IN SubSeq(r, 1, n)

CLOSE_VERBS ==
    << <<"close">>, <<"kill">>, <<"exit">>, <<"quit">>, <<"stop">>, <<"terminate">>,
       <<"end">>, <<"cierra">>, <<"cerrar">> >>

SEARCH_VERBS ==
    << <<"google">>, <<"search">>, <<"search", "for">>, <<"look", "up">>,
       <<"busca">>, <<"buscar">> >>

FIND_VERBS == << <<"find">>, <<"search">>, <<"look", "for">>, <<"busca">> >>

OPEN_VERBS ==
    << <<"open">>, <<"launch">>, <<"start">>, <<"run">>, <<"go", "to">>,
       <<"navigate", "to">>, <<"abre">>, <<"abrir">> >>

EXTENSIONS == {"pdf", "txt", "doc", "xls", "ppt", "jpg", "png", "mp3", "mp4", "zip", "exe"}

\* group 1 after (?:the\s+)?(?:my\s+)?, stripped and without trailing dots
TargetAt(s, p) == rstrip_dot(strip(From(s, OptWord(s, "my", OptWord(s, "the", p)))))

\* the first entry of a table (a sequence of <<key, value>>) whose key is in target, 0 if none
FirstKeyIn(table, target) ==
    LET ks == {k \in 1..Len(table) : Contains(target, table[k][1])}
    IN IF ks = {} THEN 0 ELSE CHOOSE m \in ks : \A n \in ks : m <= n

\* the first name of apps (in iteration order) that contains target or is contained in it
FirstApp(apps, target) ==
    LET ks == {k \in 1..Len(apps) : Contains(target, apps[k]) \/ Contains(apps[k], target)}
    IN IF ks = {} THEN 0 ELSE CHOOSE m \in ks : \A n \in ks : m <= n

Action(cmd, arg) == [cmd |-> cmd, arg |-> arg]

\* a close/kill rule that would hand on the captured fragment as it is
detect_close_Raw(lo, apps) ==
    <<Action("CLOSE_APP", TargetAt(lo, AfterVerb(lo, CLOSE_VERBS)))>>

\* the close/kill rule
detect_close(lo, apps) ==
    LET target == TargetAt(lo, AfterVerb(lo, CLOSE_VERBS))
        k == FirstApp(apps, target)
    IN IF k # 0 THEN <<Action("CLOSE_APP", apps[k])>> ELSE <<Action("CLOSE_APP", target)>>

\* whether the file-find rule returns, and with what pattern
find_pattern(lo) == strip(FindGroup(lo, AfterVerb(lo, FIND_VERBS)))

find_applies(lo) ==
    /\ AfterVerb(lo, FIND_VERBS) # 0
    /\ ~HasWord(lo, {"open", "launch", "go", "navigate"})
    /\ \/ \E c \in {"*", ".", "?"} : Contains(find_pattern(lo), c)
       \/ HasWord(find_pattern(lo), EXTENSIONS)

\* a file-find rule that would hand on the pattern as typed
detect_find_AsTyped(lo) == <<Action("FIND_FILE", find_pattern(lo))>>

detect_find(lo) ==
    LET pattern == find_pattern(lo)
    IN IF ~Contains(pattern, "*") /\ ~Contains(pattern, ".")
       THEN <<Action("FIND_FILE", "*." \o pattern)>>
       ELSE <<Action("FIND_FILE", pattern)>>

\* an open rule that would look for a known application before anything else
detect_open_AppFirst(lo, apps, exists) ==
    LET target == TargetAt(lo, AfterVerb(lo, OPEN_VERBS))
        app == FirstApp(apps, target)
    IN IF app # 0 THEN <<Action("OPEN_APP", apps[app])>>
       ELSE <<Action("OPEN_APP", target)>>

\* the open/launch/navigate rule; exists is os.path.exists of the expanded target
detect_open(lo, apps, exists) ==
    LET target == TargetAt(lo, AfterVerb(lo, OPEN_VERBS))
        site == FirstKeyIn(SITES, target)
        folder == FirstKeyIn(FOLDERS, target)
        app == FirstApp(apps, target)
    IN IF StartsWith(target, "http://") \/ StartsWith(target, "https://")
          \/ StartsWith(target, "www.")
       THEN <<Action("OPEN_URL", target)>>
       ELSE IF site # 0 THEN <<Action("OPEN_URL", SITES[site][2])>>
       ELSE IF folder # 0 THEN <<Action("OPEN_FOLDER", FOLDERS[folder][2])>>
       ELSE IF Contains(target, "\\") \/ Contains(target, "/") \/ Contains(target, ":")
       THEN IF exists THEN <<Action("OPEN_FOLDER", expanduser(target))>>
            ELSE <<Action("OPEN_APP", target)>>
       ELSE IF app # 0 THEN <<Action("OPEN_APP", apps[app])>>
       ELSE <<Action("OPEN_APP", target)>>

\* IntentDetector.detect(text); apps is APPS in the order the set iterates,
\* exists what os.path.exists answers for a path-like target
\* a detector that would try the web-search rule before the screenshot rule
detect_SearchFirst(text, apps, exists) ==
    LET lo == strip(lower(text))
    IN IF AfterVerb(lo, CLOSE_VERBS) # 0 THEN detect_close(lo, apps)
       ELSE IF AfterVerb(lo, SEARCH_VERBS) # 0
       THEN <<Action("SEARCH_WEB", strip(From(lo, AfterVerb(lo, SEARCH_VERBS))))>>
       ELSE IF IsScreenshot(lo) THEN <<Action("SCREENSHOT", "")>>
       ELSE IF find_applies(lo) THEN detect_find(lo)
       ELSE IF AfterVerb(lo, OPEN_VERBS) # 0 THEN detect_open(lo, apps, exists)
       ELSE <<>>

detect(text, apps, exists) ==
    LET lo == strip(lower(text))
    IN IF AfterVerb(lo, CLOSE_VERBS) # 0 THEN detect_close(lo, apps)
       ELSE IF IsScreenshot(lo) THEN <<Action("SCREENSHOT", "")>>
       ELSE IF AfterVerb(lo, SEARCH_VERBS) # 0
       THEN <<Action("SEARCH_WEB", strip(From(lo, AfterVerb(lo, SEARCH_VERBS))))>>
       ELSE IF find_applies(lo) THEN detect_find(lo)
       ELSE IF AfterVerb(lo, OPEN_VERBS) # 0 THEN detect_open(lo, apps, exists)
       ELSE <<>>

(***************************************************************************)
(* The state: OllamaChat, ChatWindow, the threads they start and the       *)
(* callbacks pending on the window.  history and executed record what      *)
(* happened; no operation reads them.                                      *)
(***************************************************************************)
VARIABLES
    settings,       \* Settings: [ollama_url, model]
    apps,           \* the order in which this process iterates IntentDetector.APPS
    messages,       \* OllamaChat.messages; turn (the send that wrote it) is bookkeeping
    top,            \* ChatWindow.top is a window
    is_open,        \* ChatWindow.is_open
    is_streaming,   \* ChatWindow.is_streaming
    cancel_event,   \* ChatWindow.cancel_event is set
    bot_label,      \* ChatWindow._bot_label: 0 for None, else the send that made the bubble
    label_text,     \* the text of the latest reply bubble on screen, "" when there is none
    intents_fired,  \* ChatWindow._intents_fired
    send_btn,       \* the command of the send button: "send" or "cancel"
    ui_queue,       \* the callbacks top.after(0, ...) has queued, oldest first
    turn,           \* sends accepted so far
    thr,            \* the threads running OllamaChat.stream, one per accepted send
    workers,        \* the threads running _run_intents and _execute_actions
    executed,       \* the calls of ActionExecutor.run: who made it, as which of its calls
    budget,         \* lines the backend may still yield
    faults,         \* failures the backend and the network may still show
    interrupts,     \* times the user may still stop, clear or close
    history,        \* per send: what was asked of its request and what it did
    yielded         \* per send: what the lines of its response held so far

vars == <<settings, apps, messages, top, is_open, is_streaming, cancel_event, bot_label,
          label_text, intents_fired, send_btn, ui_queue, turn, thr, workers, executed,
          budget, faults, interrupts, history, yielded>>

window_vars == <<top, is_open, is_streaming, cancel_event, bot_label, label_text,
                 intents_fired, send_btn>>

Threads == 1..MaxTurns

\* SYSTEM_PROMPT, as the message OllamaChat.__init__ and clear build
SystemMessage == [role |-> "system", content |-> "SYSTEM_PROMPT", turn |-> 0]

Message(role, content, t) == [role |-> role, content |-> content, turn |-> t]

\* what the user may type into the entry
USER_TEXTS == {"open youtube", " hello "}

\* DEFAULT_OLLAMA_URL and DEFAULT_MODEL, the settings of a first run
DefaultSettings == [ollama_url |-> "http://localhost:11434", model |-> "llama3.2"]

\* the settings the user may have saved
SETTINGS ==
    [ollama_url : {"", "/", "http://localhost:11434", "http://localhost:11434/"},
     model : {"", "llama3.2"}]

\* the argument that tells the markers of the reply to send t from those of other replies
MarkerArg(t) == "u" \o Char(Digits, t + 1)

Marker(t) == TAG \o "SYSTEM_CMD|" \o MarkerArg(t) \o "]"

\* the content fragments the backend may stream in reply to send t
FRAGMENTS(t) == {"Sure! ", Marker(t)}

\* the lines resp.iter_lines() may yield in reply to send t
RECORDS(t) ==
    {[kind |-> "blank", error |-> FALSE, content |-> "", done |-> FALSE],
     [kind |-> "bad", error |-> FALSE, content |-> "", done |-> FALSE],
     [kind |-> "json", error |-> TRUE, content |-> "", done |-> FALSE]}
    \cup [kind : {"json"}, error : {FALSE}, content : FRAGMENTS(t) \cup {""}, done : BOOLEAN]

IdleThread == [pc |-> "idle", text |-> "", handler |-> FALSE, full |-> <<>>]

NewThread(text, handler) ==
    [pc |-> "begin", text |-> text, handler |-> handler, full |-> <<>>]

Answer(running, raised, status, available) ==
    [running |-> running, raised |-> raised, status |-> status, available |-> available]

\* what the backend may answer to the probe and to the chat request: it is not
\* running; the request raises; a status, and for 404 the models it lists
ANSWERS ==
    {Answer(FALSE, FALSE, 0, <<>>), Answer(TRUE, TRUE, 0, <<>>),
     Answer(TRUE, FALSE, 200, <<>>), Answer(TRUE, FALSE, 500, <<>>),
     Answer(TRUE, FALSE, 404, <<>>), Answer(TRUE, FALSE, 404, <<"mistral">>)}

\* per send: fired, detect returned actions; cancel_req, the user asked its request to
\* stop (stopped: with the stop button); seen, its loop saw the event set; the calls
\* of on_chunk, on_done, on_error, on_model_not_found and of requests.post it made;
\* late, it called on_chunk after cancel_req; entry, messages when stream was
\* entered; answer, what the backend answered; outcome, how stream returned;
\* parts, how the backend composed the reply (set by the specifications that
\* start from a composed reply)
NoHistory ==
    [fired |-> FALSE, cancel_req |-> FALSE, stopped |-> FALSE, seen |-> FALSE,
     nchunk |-> 0, ndone |-> 0, nerror |-> 0, nmnf |-> 0, nreq |-> 0, late |-> FALSE,
     entry |-> <<>>, answer |-> Answer(FALSE, FALSE, 0, <<>>), outcome |-> "none",
     parts |-> <<>>]

Event(fn, arg, t) == [fn |-> fn, arg |-> arg, t |-> t]

\* top.after(0, fn, arg) behind "if self.top": _on_chunk, _on_done, _on_error,
\* _on_model_not_found
after(q, fn, arg, t) == IF top THEN Append(q, Event(fn, arg, t)) ELSE q

RECURSIVE rstrip_slash(_)
\* str.rstrip("/")
rstrip_slash(s) ==
    IF s # "" /\ Char(s, Len(s)) = "/" THEN rstrip_slash(SubSeq(s, 1, Len(s) - 1)) ELSE s

(***************************************************************************)
(* OllamaChat.stream, run by thread t.  A step is what the thread does     *)
(* when an answer of the network arrives: the code up to the next wait.    *)
(***************************************************************************)
\* a failure path that would return without invoking on_error
StreamError_NoCallback(t, outcome, h) ==
    /\ thr' = [thr EXCEPT ![t].pc = "done"]
    /\ history' = [h EXCEPT ![t].outcome = outcome]
    /\ UNCHANGED <<messages, ui_queue>>

\* on_error(...) and return; h is the bookkeeping so far
StreamError(t, outcome, h) ==
    /\ thr' = [thr EXCEPT ![t].pc = "done"]
    /\ history' = [h EXCEPT ![t].nerror = @ + 1, ![t].outcome = outcome]
    /\ ui_queue' = after(ui_queue, "_show_error", outcome, t)
    /\ UNCHANGED messages

\* self.messages.append({"role": "user", ...}), the first statement of stream
StreamBegin(t) ==
    /\ thr[t].pc = "begin"
    /\ messages' = Append(messages, Message("user", thr[t].text, t))
    /\ thr' = [thr EXCEPT ![t].pc = "request"]
    /\ history' = [history EXCEPT ![t].entry = messages]
    /\ UNCHANGED <<settings, apps, yielded, window_vars, ui_queue, turn, workers, executed, budget,
                   faults, interrupts>>

\* a 404 branch that would leave the user message in the conversation
StreamNotFound_NoRollback(t, available, h) ==
    IF available # <<>> /\ thr[t].handler
    THEN /\ thr' = [thr EXCEPT ![t].pc = "done"]
         /\ ui_queue' = after(ui_queue, "_show_model_picker", available, t)
         /\ history' = [h EXCEPT ![t].nmnf = @ + 1, ![t].outcome = "model_not_found"]
         /\ UNCHANGED messages
    ELSE StreamError(t, "not_found", h)

\* a 404 branch that would take the last message off whatever its role
StreamNotFound_PopsAny(t, available, h) ==
    IF available # <<>> /\ thr[t].handler
    THEN /\ messages' = SubSeq(messages, 1, Len(messages) - 1)
         /\ thr' = [thr EXCEPT ![t].pc = "done"]
         /\ ui_queue' = after(ui_queue, "_show_model_picker", available, t)
         /\ history' = [h EXCEPT ![t].nmnf = @ + 1, ![t].outcome = "model_not_found"]
    ELSE StreamError(t, "not_found", h)

\* the 404 branch: OllamaManager.list_models answered available
StreamNotFound(t, available, h) ==
    IF available # <<>> /\ thr[t].handler
    THEN /\ messages' = IF messages # <<>> /\ messages[Len(messages)].role = "user"
                        THEN SubSeq(messages, 1, Len(messages) - 1)
                        ELSE messages
         /\ thr' = [thr EXCEPT ![t].pc = "done"]
         /\ history' = [h EXCEPT ![t].nmnf = @ + 1, ![t].outcome = "model_not_found"]
         /\ ui_queue' = after(ui_queue, "_show_model_picker", available, t)
    ELSE StreamError(t, "not_found", h)

\* an answer that is not the one of a healthy backend
IsFault(ans) == ~ans.running \/ ans.raised \/ ans.status # 200

\* the bookkeeping of a chat request answered with ans
Posted(t, ans) == [history EXCEPT ![t].nreq = @ + 1, ![t].answer = ans]

\* the configuration check, the probe OllamaManager.is_running(base),
\* requests.post(.../api/chat) and the status checks
StreamAnswer(t, ans) ==
    IF rstrip_slash(settings.ollama_url) = "" \/ settings.model = ""
    THEN StreamError(t, "config", history)
    ELSE IF ~ans.running THEN StreamError(t, "probe", history)
    ELSE IF ans.raised THEN StreamError(t, "exception", Posted(t, ans))
    ELSE IF ans.status = 404 THEN StreamNotFound(t, ans.available, Posted(t, ans))
    ELSE IF ans.status # 200 THEN StreamError(t, "http", Posted(t, ans))
    ELSE /\ thr' = [thr EXCEPT ![t].pc = "lines"]
         /\ history' = Posted(t, ans)
         /\ UNCHANGED <<messages, ui_queue>>

StreamRequest(t) ==
    /\ thr[t].pc = "request"
    /\ \E ans \in ANSWERS :
          /\ IsFault(ans) => faults > 0
          /\ faults' = IF IsFault(ans) THEN faults - 1 ELSE faults
          /\ StreamAnswer(t, ans)
    /\ UNCHANGED <<settings, apps, yielded, window_vars, turn, workers, executed, budget, interrupts>>

\* what follows the loop, which content was the last fragment of (none when ""):
\* the assistant message and on_done()
StreamDone(t, content, seen) ==
    LET full == IF content # "" THEN Append(thr[t].full, content) ELSE thr[t].full
        chunked == IF content # "" THEN after(ui_queue, "_append_chunk", content, t)
                   ELSE ui_queue
    IN /\ messages' = IF join(full) # ""
                      THEN Append(messages, Message("assistant", join(full), t))
                      ELSE messages
       /\ thr' = [thr EXCEPT ![t].pc = "done", ![t].full = full]
       /\ ui_queue' = after(chunked, "_finish_and_run_actions", "", t)
       /\ history' = [history EXCEPT
                         ![t].ndone = @ + 1, ![t].outcome = "done", ![t].seen = seen,
                         ![t].nchunk = IF content # "" THEN @ + 1 ELSE @,
                         ![t].late = @ \/ (content # "" /\ history[t].cancel_req)]

\* full.append(content) and on_chunk(content)
StreamChunk(t, content) ==
    /\ thr' = [thr EXCEPT ![t].full = Append(@, content)]
    /\ ui_queue' = after(ui_queue, "_append_chunk", content, t)
    /\ history' = [history EXCEPT ![t].nchunk = @ + 1,
                                   ![t].late = @ \/ history[t].cancel_req]
    /\ UNCHANGED messages

\* a loop that would return without a callback when it sees the event set
StreamLine_SilentCancel(t, rec) ==
    IF cancel_event
    THEN /\ thr' = [thr EXCEPT ![t].pc = "done"]
         /\ history' = [history EXCEPT ![t].seen = TRUE, ![t].outcome = "cancelled"]
         /\ UNCHANGED <<messages, ui_queue>>
    ELSE IF rec.kind # "json" THEN UNCHANGED <<messages, thr, ui_queue, history>>
    ELSE IF rec.error THEN StreamError(t, "inline", history)
    ELSE IF rec.done THEN StreamDone(t, rec.content, FALSE)
    ELSE IF rec.content # "" THEN StreamChunk(t, rec.content)
    ELSE UNCHANGED <<messages, thr, ui_queue, history>>

\* a loop that would report an inline error and go on reading
StreamLine_ErrorContinues(t, rec) ==
    IF cancel_event THEN StreamDone(t, "", TRUE)
    ELSE IF rec.kind # "json" THEN UNCHANGED <<messages, thr, ui_queue, history>>
    ELSE IF rec.error
    THEN /\ ui_queue' = after(ui_queue, "_show_error", "inline", t)
         /\ history' = [history EXCEPT ![t].nerror = @ + 1, ![t].outcome = "inline"]
         /\ UNCHANGED <<messages, thr>>
    ELSE IF rec.done THEN StreamDone(t, rec.content, FALSE)
    ELSE IF rec.content # "" THEN StreamChunk(t, rec.content)
    ELSE UNCHANGED <<messages, thr, ui_queue, history>>

\* a loop that would report a line that is not JSON as an error and return
StreamLine_BadLineFails(t, rec) ==
    IF cancel_event THEN StreamDone(t, "", TRUE)
    ELSE IF rec.kind = "bad" THEN StreamError(t, "inline", history)
    ELSE IF rec.kind # "json" THEN UNCHANGED <<messages, thr, ui_queue, history>>
    ELSE IF rec.error THEN StreamError(t, "inline", history)
    ELSE IF rec.done THEN StreamDone(t, rec.content, FALSE)
    ELSE IF rec.content # "" THEN StreamChunk(t, rec.content)
    ELSE UNCHANGED <<messages, thr, ui_queue, history>>

\* one pass of "for line in resp.iter_lines()" with the line rec
StreamLine(t, rec) ==
    IF cancel_event THEN StreamDone(t, "", TRUE)
    ELSE IF rec.kind # "json" THEN UNCHANGED <<messages, thr, ui_queue, history>>
    ELSE IF rec.error THEN StreamError(t, "inline", history)
    ELSE IF rec.done THEN StreamDone(t, rec.content, FALSE)
    ELSE IF rec.content # "" THEN StreamChunk(t, rec.content)
    ELSE UNCHANGED <<messages, thr, ui_queue, history>>

\* of the lines a response yielded: got, the non-empty contents of the well-formed
\* records without error, in the order they came; skipped, some line was blank
\* or not JSON
NoLines == [got |-> <<>>, skipped |-> FALSE]

Yield(y, rec) ==
    [got |-> IF rec.kind = "json" /\ ~rec.error /\ rec.content # ""
             THEN Append(y.got, rec.content) ELSE y.got,
     skipped |-> y.skipped \/ rec.kind # "json"]

\* the response yields a line
StreamRecord(t) ==
    /\ thr[t].pc = "lines"
    /\ budget > 0
    /\ budget' = budget - 1
    /\ \E rec \in RECORDS(t) :
          /\ rec.error => faults > 0
          /\ faults' = IF rec.error /\ ~cancel_event THEN faults - 1 ELSE faults
          /\ StreamLine(t, rec)
          /\ yielded' = [yielded EXCEPT ![t] = Yield(@, rec)]
    /\ UNCHANGED <<settings, apps, window_vars, turn, workers, executed, interrupts>>

\* the response ends with no record that says done
StreamEnd(t) ==
    /\ thr[t].pc = "lines"
    /\ StreamDone(t, "", FALSE)
    /\ UNCHANGED <<settings, apps, yielded, window_vars, turn, workers, executed, budget, faults, interrupts>>

\* iter_lines raises: ConnectionError, Timeout or another exception
StreamRaise(t) ==
    /\ thr[t].pc = "lines"
    /\ faults > 0
    /\ faults' = faults - 1
    /\ StreamError(t, "exception", history)
    /\ UNCHANGED <<settings, apps, yielded, window_vars, turn, workers, executed, budget, interrupts>>

Stream(t) ==
    \/ StreamBegin(t)
    \/ StreamRequest(t)
    \/ StreamRecord(t)
    \/ StreamEnd(t)
    \/ StreamRaise(t)

(***************************************************************************)
(* ChatWindow: what the user does.                                         *)
(***************************************************************************)
\* the request the window is streaming is asked to stop
Requested(stop) ==
    IF is_streaming /\ turn > 0
    THEN [history EXCEPT ![turn].cancel_req = TRUE, ![turn].stopped = @ \/ stop]
    ELSE history

\* ChatWindow.open
Open ==
    /\ ~(is_open /\ top)
    /\ is_open' = TRUE
    /\ is_streaming' = FALSE
    /\ top' = TRUE
    /\ send_btn' = "send"
    /\ UNCHANGED <<settings, apps, yielded, messages, cancel_event, bot_label, label_text,
                   intents_fired, ui_queue, turn, thr, workers, executed, history, budget, faults, interrupts>>

\* ChatWindow.close; destroying top deletes the callbacks pending on it
Close ==
    /\ top
    /\ interrupts > 0
    /\ interrupts' = interrupts - 1
    /\ cancel_event' = (cancel_event \/ is_streaming)
    /\ history' = Requested(FALSE)
    /\ is_open' = FALSE
    /\ is_streaming' = FALSE
    /\ bot_label' = 0
    /\ label_text' = ""
    /\ top' = FALSE
    /\ ui_queue' = <<>>
    /\ UNCHANGED <<settings, apps, yielded, messages, intents_fired, send_btn, turn, thr, workers,
                   executed, budget, faults>>

\* a send that would start the chat request and leave the detected actions aside
Send_DropsIntents(text) ==
    /\ top
    /\ ~is_streaming
    /\ strip(text) # ""
    /\ turn < MaxTurns
    /\ \E exists \in BOOLEAN :
          LET intents == detect(strip(text), apps, exists)
              t == turn + 1
          IN /\ intents_fired' = (intents # <<>>)
             /\ bot_label' = t
             /\ label_text' = PREFIX
             /\ is_streaming' = TRUE
             /\ cancel_event' = FALSE
             /\ send_btn' = "cancel"
             /\ thr' = [thr EXCEPT ![t] = NewThread(strip(text), TRUE)]
             /\ turn' = t
             /\ history' = [history EXCEPT ![t].fired = (intents # <<>>)]
    /\ UNCHANGED <<settings, apps, yielded, messages, top, is_open, ui_queue, executed, budget, faults,
                   interrupts, workers>>

\* ChatWindow._send with text in the entry
Send(text) ==
    /\ top
    /\ ~is_streaming
    /\ strip(text) # ""
    /\ turn < MaxTurns
    /\ \E exists \in BOOLEAN :
          LET intents == detect(strip(text), apps, exists)
              t == turn + 1
          IN /\ intents_fired' = (intents # <<>>)
             /\ workers' = IF intents # <<>>
                           THEN workers \cup {[src |-> "intent", by |-> t, todo |-> intents]}
                           ELSE workers
             /\ bot_label' = t
             /\ label_text' = PREFIX
             /\ is_streaming' = TRUE
             /\ cancel_event' = FALSE
             /\ send_btn' = "cancel"
             /\ thr' = [thr EXCEPT ![t] = NewThread(strip(text), TRUE)]
             /\ turn' = t
             /\ history' = [history EXCEPT ![t].fired = (intents # <<>>)]
    /\ UNCHANGED <<settings, apps, yielded, messages, top, is_open, ui_queue, executed, budget, faults, interrupts>>

\* ChatWindow._cancel, the command of the button while a reply streams
Cancel ==
    /\ top
    /\ interrupts > 0
    /\ interrupts' = interrupts - 1
    /\ send_btn = "cancel"
    /\ cancel_event' = TRUE
    /\ history' = Requested(TRUE)
    /\ UNCHANGED <<settings, apps, yielded, messages, top, is_open, is_streaming, bot_label,
                   label_text, intents_fired, send_btn, ui_queue, turn, thr, workers,
                   executed, budget, faults>>

\* a clear that would keep the conversation but for its last message
clear_DropsLast(msgs) == SubSeq(msgs, 1, Len(msgs) - 1)

\* OllamaChat.clear, on the conversation msgs
clear(msgs) == <<SystemMessage>>

\* ChatWindow._clear
Clear ==
    /\ top
    /\ interrupts > 0
    /\ interrupts' = interrupts - 1
    /\ cancel_event' = (cancel_event \/ is_streaming)
    /\ history' = Requested(FALSE)
    /\ messages' = clear(messages)
    /\ bot_label' = 0
    /\ label_text' = ""
    /\ is_streaming' = FALSE
    /\ send_btn' = "send"
    /\ UNCHANGED <<settings, apps, yielded, top, is_open, intents_fired, ui_queue, turn, thr,
                   workers, executed, budget, faults>>

(***************************************************************************)
(* ChatWindow: the callbacks the stream threads queued, run by the UI      *)
(* thread in the order they were queued.                                   *)
(***************************************************************************)
\* ChatWindow._finish
finish ==
    /\ is_streaming' = FALSE
    /\ bot_label' = 0
    /\ intents_fired' = FALSE
    /\ send_btn' = IF top THEN "send" ELSE send_btn

\* ChatWindow._append_chunk
append_chunk(text) ==
    /\ label_text' = IF bot_label # 0 THEN label_text \o text ELSE label_text
    /\ UNCHANGED <<is_streaming, bot_label, intents_fired, send_btn, workers>>

\* the thread _finish_and_run_actions starts for the marker bodies actions
marker_thread(actions, t) ==
    [src |-> "marker", by |-> t, todo |-> [i \in 1..Len(actions) |-> [str |-> actions[i]]]]

\* ChatWindow._finish_and_run_actions
finish_and_run_actions(t) ==
    /\ label_text' = IF bot_label # 0 THEN label_after_finish(label_text) ELSE label_text
    /\ workers' = IF bot_label # 0 /\ actions_of(label_text, intents_fired) # <<>>
                  THEN workers \cup {marker_thread(actions_of(label_text, intents_fired), t)}
                  ELSE workers
    /\ finish

\* an error handler that would not call _finish
show_error_NoFinish ==
    /\ label_text' = IF bot_label # 0 THEN "" ELSE label_text
    /\ UNCHANGED <<is_streaming, bot_label, intents_fired, send_btn, workers>>

\* ChatWindow._show_error and ChatWindow._show_model_picker: the reply bubble
\* is destroyed, a bubble with the message is added
show_error ==
    /\ label_text' = IF bot_label # 0 THEN "" ELSE label_text
    /\ finish
    /\ UNCHANGED workers

UiStep ==
    /\ ui_queue # <<>>
    /\ ui_queue' = Tail(ui_queue)
    /\ LET ev == Head(ui_queue)
       IN CASE ev.fn = "_append_chunk" -> append_chunk(ev.arg)
            [] ev.fn = "_finish_and_run_actions" -> finish_and_run_actions(ev.t)
            [] OTHER -> show_error
    /\ UNCHANGED <<settings, apps, yielded, messages, top, is_open, cancel_event, turn, thr,
                   executed, history, budget, faults, interrupts>>

(***************************************************************************)
(* ActionExecutor.run, called by _run_intents and _execute_actions.        *)
(***************************************************************************)
\* the commands ActionExecutor.run knows
COMMANDS ==
    {"OPEN_URL", "OPEN_APP", "SEARCH_WEB", "OPEN_FOLDER", "FIND_FILE", "SYSTEM_CMD",
     "CLOSE_APP", "SCREENSHOT", "TYPE_TEXT"}

\* the list dangerous of ActionExecutor._system_cmd
DANGEROUS == <<"format", "del /", "rm -rf", "rmdir", "rd /s", ":(){", "shutdown", "restart">>

\* a _system_cmd that would look for the entries as they are written
system_cmd_CaseSensitive(command, fault) ==
    IF \E i \in 1..Len(DANGEROUS) : Contains(command, DANGEROUS[i])
    THEN [result |-> "Blocked potentially dangerous command: " \o command,
          spawn |-> FALSE, raised |-> FALSE]
    ELSE [result |-> IF fault THEN "Command failed" ELSE "Command executed",
          spawn |-> TRUE, raised |-> FALSE]

\* ActionExecutor._system_cmd; fault: subprocess.run times out or raises
system_cmd(command, fault) ==
    IF \E i \in 1..Len(DANGEROUS) : Contains(lower(command), DANGEROUS[i])
    THEN [result |-> "Blocked potentially dangerous command: " \o command,
          spawn |-> FALSE, raised |-> FALSE]
    ELSE [result |-> IF fault THEN "Command failed" ELSE "Command executed",
          spawn |-> TRUE, raised |-> FALSE]

\* the k-th call of ActionExecutor.run by worker w
call_of(w, k) ==
    IF w.src = "intent" THEN w.todo[k] ELSE parse_action(w.todo[k].str)

\* a dispatch that would let the exception of a handler reach its caller
run_Raises(cmd, arg, fault) ==
    IF cmd = "SYSTEM_CMD" THEN system_cmd(arg, fault)
    ELSE IF cmd \in COMMANDS
    THEN [result |-> IF fault THEN "" ELSE "Done: " \o arg, spawn |-> FALSE, raised |-> fault]
    ELSE [result |-> "Unknown action: " \o cmd, spawn |-> FALSE, raised |-> FALSE]

\* ActionExecutor.run; fault: the handler meets an exception.  result is the string
\* returned, spawn whether _system_cmd called subprocess.run, raised whether an
\* exception reaches the caller
run(cmd, arg, fault) ==
    IF cmd = "SYSTEM_CMD" THEN system_cmd(arg, fault)
    ELSE IF cmd \in COMMANDS
    THEN [result |-> IF fault THEN "Action failed" ELSE "Done: " \o arg,
          spawn |-> FALSE, raised |-> FALSE]
    ELSE [result |-> "Unknown action: " \o cmd, spawn |-> FALSE, raised |-> FALSE]

\* what the calls of worker w return when the handlers of the calls in bad fail
Outcomes(w, bad) ==
    [k \in 1..Len(w.todo) |-> run(call_of(w, k).cmd, call_of(w, k).arg, k \in bad)]

\* the loop of _run_intents and of _execute_actions: one call of ActionExecutor.run for
\* each entry, in the order of the list, up to a call that raises; n is the length
\* of the list
RunAction(w) ==
    /\ w \in workers
    /\ \E bad \in SUBSET (1..Len(w.todo)) :
          LET out == Outcomes(w, bad)
              calls == [k \in 1..Len(w.todo) |-> call_of(w, k)]
              ran == {i \in 1..Len(w.todo) : \A j \in 1..(i - 1) : ~out[j].raised}
          IN /\ Cardinality(bad) <= faults
             /\ faults' = faults - Cardinality(bad)
             /\ executed' = executed \cup
                   {[src |-> w.src, by |-> w.by, k |-> k, n |-> Len(w.todo),
                     cmd |-> calls[k].cmd, arg |-> calls[k].arg,
                     result |-> out[k].result, spawn |-> out[k].spawn,
                     raised |-> out[k].raised] : k \in ran}
    /\ workers' = workers \ {w}
    /\ UNCHANGED <<settings, apps, yielded, messages, window_vars, ui_queue, turn, thr, history,
                   budget, interrupts>>

(***************************************************************************)
(* The program: the window is closed, nothing was sent.                    *)
(***************************************************************************)
Init ==
    /\ settings = DefaultSettings
    /\ apps \in APP_ORDERS
    /\ messages = <<SystemMessage>>
    /\ top = FALSE
    /\ is_open = FALSE
    /\ is_streaming = FALSE
    /\ cancel_event = FALSE
    /\ bot_label = 0
    /\ label_text = ""
    /\ intents_fired = FALSE
    /\ send_btn = "send"
    /\ ui_queue = <<>>
    /\ turn = 0
    /\ thr = [t \in Threads |-> IdleThread]
    /\ workers = {}
    /\ executed = {}
    /\ budget = MaxRecords
    /\ faults = MaxFaults
    /\ interrupts = MaxInterrupts
    /\ history = [t \in Threads |-> NoHistory]
    /\ yielded = [t \in Threads |-> NoLines]

Next ==
    \/ Open
    \/ Close
    \/ \E text \in USER_TEXTS : Send(text)
    \/ Cancel
    \/ Clear
    \/ UiStep
    \/ \E t \in Threads : Stream(t)
    \/ \E w \in workers : RunAction(w)

Spec == Init /\ [][Next]_vars

(***************************************************************************)
(* One call of OllamaChat.stream on its own: the window has sent "hello"   *)
(* (or a caller passed no on_model_not_found), the conversation may hold   *)
(* an earlier exchange, the settings are any the user may have saved; the  *)
(* user may press the stop button.  The callbacks stay queued.             *)
(***************************************************************************)
\* the conversations a call may start from
CONVERSATIONS ==
    {<<SystemMessage>>,
     <<SystemMessage, Message("user", "hi", 0), Message("assistant", "Hello!", 0)>>}

InitStream ==
    /\ settings \in SETTINGS
    /\ apps \in APP_ORDERS
    /\ messages \in CONVERSATIONS
    /\ top = TRUE
    /\ is_open = TRUE
    /\ is_streaming = TRUE
    /\ cancel_event = FALSE
    /\ bot_label = 1
    /\ label_text = PREFIX
    /\ intents_fired = FALSE
    /\ send_btn = "cancel"
    /\ ui_queue = <<>>
    /\ turn = 1
    /\ \E handler \in BOOLEAN :
          thr = [t \in Threads |-> IF t = 1 THEN NewThread("hello", handler) ELSE IdleThread]
    /\ workers = {}
    /\ executed = {}
    /\ budget = MaxStreamRecords
    /\ faults = MaxFaults
    /\ interrupts = MaxInterrupts
    /\ history = [t \in Threads |-> NoHistory]
    /\ yielded = [t \in Threads |-> NoLines]

NextStream ==
    \/ Stream(1)
    \/ Cancel

SpecStream == InitStream /\ [][NextStream]_vars

\* the thread that runs stream is scheduled until stream returns; the backend
\* answers, and a response ends or times out (timeout=300 of requests.post)
SpecStreamFair == InitStream /\ [][NextStream]_vars /\ WF_vars(Stream(1))

(***************************************************************************)
(* The completion handler on its own: a reply the backend composed of      *)
(* texts and markers was streamed to the bubble and on_done is queued.     *)
(***************************************************************************)
\* the pieces of a reply: a text without marker, or a marker written with the
\* command cmd, with or without a bar, and the argument arg
SEGMENTS ==
    [kind : {"text"}, cmd : {""}, bar : {FALSE}, arg : {"Sure! ", " ok"}]
    \cup [kind : {"marker"}, cmd : {"OPEN_URL", " open_url ", ""}, bar : {TRUE},
          arg : {"", "https://x.test", " a|b "}]
    \cup [kind : {"marker"}, cmd : {"OPEN_URL", " open_url ", ""}, bar : {FALSE}, arg : {""}]

\* the characters of a piece
Render(seg) ==
    IF seg.kind = "text" THEN seg.arg
    ELSE TAG \o seg.cmd \o (IF seg.bar THEN "|" \o seg.arg ELSE "") \o "]"

REPLIES == UNION {[1..n -> SEGMENTS] : n \in 0..MaxSegments}

InitMarkers ==
    /\ settings = DefaultSettings
    /\ apps \in APP_ORDERS
    /\ top = TRUE
    /\ is_open = TRUE
    /\ is_streaming = TRUE
    /\ cancel_event = FALSE
    /\ bot_label = 1
    /\ send_btn = "cancel"
    /\ ui_queue = <<Event("_finish_and_run_actions", "", 1)>>
    /\ turn = 1
    /\ executed = {}
    /\ budget = 0
    /\ faults = 0
    /\ interrupts = 0
    /\ yielded = [t \in Threads |-> NoLines]
    /\ \E text \in USER_TEXTS, parts \in REPLIES :
          LET intents == detect(strip(text), apps, FALSE)
              full == [i \in 1..Len(parts) |-> Render(parts[i])]
              asked == <<SystemMessage, Message("user", strip(text), 1)>>
          IN /\ intents_fired = (intents # <<>>)
             /\ workers = IF intents # <<>>
                          THEN {[src |-> "intent", by |-> 1, todo |-> intents]}
                          ELSE {}
             /\ label_text = PREFIX \o join(full)
             /\ messages = IF join(full) # ""
                           THEN Append(asked, Message("assistant", join(full), 1))
                           ELSE asked
             /\ thr = [t \in Threads |->
                          IF t = 1
                          THEN [pc |-> "done", text |-> strip(text), handler |-> TRUE,
                                full |-> full]
                          ELSE IdleThread]
             /\ history = [t \in Threads |->
                              IF t = 1
                              THEN [NoHistory EXCEPT
                                       !.fired = (intents # <<>>), !.nchunk = Len(parts),
                                       !.ndone = 1, !.nreq = 1,
                                       !.answer = Answer(TRUE, FALSE, 200, <<>>),
                                       !.entry = <<SystemMessage>>, !.outcome = "done",
                                       !.parts = parts]
                              ELSE NoHistory]

NextMarkers ==
    \/ UiStep
    \/ \E w \in workers : RunAction(w)

SpecMarkers == InitMarkers /\ [][NextMarkers]_vars

(***************************************************************************)
(* Properties.                                                             *)
(***************************************************************************)
\* the conversation holds an assistant message of send t
AssistantOf(t) ==
    \E i \in 1..Len(messages) : messages[i].role = "assistant" /\ messages[i].turn = t

\* the calls of ActionExecutor.run made for markers of the reply to send t
MarkerRuns(t) == {e \in executed : e.src = "marker" /\ e.arg = MarkerArg(t)}

\* the stream threads that have not returned
InFlight == {t \in Threads : thr[t].pc \notin {"idle", "done"}}

\* the conversation a stream call leaves when it appended only the user message
Asked(t) == Append(history[t].entry, Message("user", thr[t].text, t))

\* C1: when IntentDetector.detect returned actions for the text of a send, no
\* marker of the reply to that send is passed to ActionExecutor.run, whatever the
\* user does (send, stop, clear, close, reopen) while the stream threads run.
C1_Arbitration ==
    \A t \in Threads : history[t].fired => MarkerRuns(t) = {}

C3_StoppedRunsNoMarker ==
    \A t \in Threads : (history[t].stopped /\ history[t].seen) => MarkerRuns(t) = {}

\* C4: at any time at most one call of OllamaChat.stream is in flight.
C4_TurnsSerialized == Cardinality(InFlight) <= 1

\* C5: once the user asked a request to stop (stop, clear, close), its loop
\* delivers no fragment, also when a later send starts before the loop polls.
C5_CancelStaysSet ==
    \A t \in Threads : ~history[t].late

\* C6: when stream fails on the empty URL or model, or on the probe, on_error was
\* invoked, no chat request was sent and the conversation is what it was before
\* the call.
C6_PreRequestFailure ==
    history[1].outcome \in {"config", "probe"} =>
        /\ history[1].nerror = 1
        /\ history[1].nreq = 0
        /\ messages = history[1].entry

\* the text holds a substring of the form [ACTION:...]
HasMarker(s) == \E i \in 1..Len(s) : TagEnd(s, i, 0) # 0

\* the calls of ActionExecutor.run made for markers of the reply
MarkerCalls ==
    {[src |-> e.src, by |-> e.by, k |-> e.k, cmd |-> e.cmd, arg |-> e.arg]
        : e \in {x \in executed : x.src = "marker"}}

\* the calls that dispatch the entries of want once each, in their order
Calls(want) ==
    {[src |-> "marker", by |-> 1, k |-> k, cmd |-> want[k].cmd, arg |-> want[k].arg]
        : k \in 1..Len(want)}

\* the completion handler ran and the thread it started, if any, ended
Dispatched == ui_queue = <<>> /\ ~\E w \in workers : w.src = "marker"

IsMarker(seg) == seg.kind = "marker"

HasBody(seg) == seg.kind = "marker" /\ (seg.cmd # "" \/ seg.bar)

\* the markers of the reply as they are written: the text before the first bar and
\* everything after it
Written(parts) ==
    LET marks == SelectSeq(parts, IsMarker)
    IN [k \in 1..Len(marks) |-> [cmd |-> marks[k].cmd, arg |-> marks[k].arg]]

\* the markers of the reply that hold something between the colon and the bracket,
\* the command trimmed and in upper case, the argument trimmed
Normalised(parts) ==
    LET marks == SelectSeq(parts, HasBody)
    IN [k \in 1..Len(marks) |->
           [cmd |-> upper(strip(marks[k].cmd)), arg |-> strip(marks[k].arg)]]

\* C7: after the completion handler ran, the text the reply bubble shows holds no
\* substring of the form [ACTION:...], whatever markers and text the reply was
\* made of and whether or not local intents fired.
C7_ShownTextHasNoMarker ==
    ui_queue = <<>> => ~HasMarker(label_text)

C9_ModelNotFound ==
    (history[1].nreq = 1 /\ history[1].answer.status = 404) =>
        IF history[1].answer.available # <<>> /\ thr[1].handler
        THEN /\ messages = history[1].entry
             /\ ui_queue = <<Event("_show_model_picker", history[1].answer.available, 1)>>
             /\ history[1].nmnf = 1
             /\ history[1].nerror = 0
             /\ history[1].ndone = 0
        ELSE /\ history[1].nerror = 1
             /\ history[1].nmnf = 0
             /\ history[1].ndone = 0
             /\ ui_queue[Len(ui_queue)].fn = "_show_error"

\* C9: the call that rolled back started from a conversation with an earlier exchange
C9_Witness ==
    /\ history[1].outcome = "model_not_found"
    /\ Len(history[1].entry) > 1
    /\ messages = history[1].entry

\* C10: when a record carries an inline error, stream has returned with on_error
\* invoked once, every fragment delivered before it and none after, on_done never
\* invoked, no assistant message appended and the user message of the turn last
\* in the conversation.
C10_InlineError ==
    history[1].outcome = "inline" =>
        /\ thr[1].pc = "done"
        /\ history[1].nerror = 1
        /\ history[1].ndone = 0
        /\ history[1].nmnf = 0
        /\ history[1].nchunk = Len(thr[1].full)
        /\ ui_queue[Len(ui_queue)].fn = "_show_error"
        /\ ~AssistantOf(1)
        /\ messages = Asked(1)

\* C10: the inline error came after a fragment had been delivered
C10_Witness == history[1].outcome = "inline" /\ Len(thr[1].full) > 0

\* how stream returns when the turn ends in an error or in model-unavailable
ERROR_OUTCOMES == {"exception", "http", "inline", "not_found", "model_not_found"}

\* C11: when a turn ends in an error or in model-unavailable (non-200 status,
\* inline error, transport exception, 404), no marker of the text received for the
\* turn is executed and the conversation holds no assistant message of the turn.
C11_ErroredRunsNoMarker ==
    \A t \in Threads :
        history[t].outcome \in ERROR_OUTCOMES => MarkerRuns(t) = {} /\ ~AssistantOf(t)

C13_ClearResets ==
    [][Clear => (messages' = <<SystemMessage>> /\ clear(messages') = messages')]_vars

\* C13: a conversation that held a reply was cleared
C13_Witness ==
    /\ messages = <<SystemMessage>>
    /\ \E t \in Threads :
          history[t].outcome = "done" /\ join(thr[t].full) # "" /\ history[t].nmnf = 0

(***************************************************************************)
(* The window left open and uninterrupted, the backend healthy: the user   *)
(* sends, each request is answered and its response ends, the threads      *)
(* started for the actions run.  A started thread is scheduled until it    *)
(* returns.                                                                *)
(***************************************************************************)
\* what the user may type: one text for each rule of IntentDetector.detect that
\* needs no known name, one that no rule matches, one that is blank
INTENT_TEXTS ==
    {"close chrome", "Take a screenshot", "find *.txt", "open youtube", " hello ", "  "}

InitIntents ==
    /\ settings = DefaultSettings
    /\ apps \in APP_ORDERS
    /\ messages = <<SystemMessage>>
    /\ top = TRUE
    /\ is_open = TRUE
    /\ is_streaming = FALSE
    /\ cancel_event = FALSE
    /\ bot_label = 0
    /\ label_text = ""
    /\ intents_fired = FALSE
    /\ send_btn = "send"
    /\ ui_queue = <<>>
    /\ turn = 0
    /\ thr = [t \in Threads |-> IdleThread]
    /\ workers = {}
    /\ executed = {}
    /\ budget = 0
    /\ faults = 0
    /\ interrupts = 0
    /\ history = [t \in Threads |-> NoHistory]
    /\ yielded = [t \in Threads |-> NoLines]

NextIntents ==
    \/ \E text \in INTENT_TEXTS : Send(text)
    \/ UiStep
    \/ \E t \in Threads : StreamBegin(t) \/ StreamRequest(t) \/ StreamEnd(t)
    \/ \E w \in workers : RunAction(w)

SpecIntents ==
    InitIntents /\ [][NextIntents]_vars /\ WF_vars(\E w \in workers : RunAction(w))

\* the calls of ActionExecutor.run made for the actions detected in the text of send t
IntentCalls(t) ==
    {[k |-> e.k, cmd |-> e.cmd, arg |-> e.arg] : e \in {x \in executed : x.src = "intent" /\ x.by = t}}

\* the thread _send started for the actions of send t has not run yet
IntentsPending(t) == \E w \in workers : w.src = "intent" /\ w.by = t

\* one call for each entry of want, in the order of the list
OnceEach(want) ==
    {[k |-> k, cmd |-> want[k].cmd, arg |-> want[k].arg] : k \in 1..Len(want)}

\* the calls made for send t are none while its thread is pending and, once it
\* ran, one for each action detect returns for the text, in list order; and the
\* thread on OllamaChat.stream was started
DispatchedOnce(t) ==
    /\ thr[t].pc # "idle"
    /\ \E exists \in BOOLEAN :
          LET want == detect(thr[t].text, apps, exists)
          IN /\ history[t].fired = (want # <<>>)
             /\ IntentCalls(t) = IF IntentsPending(t) THEN {} ELSE OnceEach(want)
             /\ \A w \in workers : (w.src = "intent" /\ w.by = t) => w.todo = want

\* C14: for every accepted send, the actions IntentDetector.detect returns for its
\* text are dispatched to ActionExecutor.run once each, in list order (none before
\* the thread started for them runs, all of them once it ran, and it does run),
\* and a thread on OllamaChat.stream is started whether or not an action was
\* detected; a send that was not accepted dispatches nothing.
C14_IntentsDispatchedOnce ==
    /\ [](\A t \in Threads : IF t <= turn THEN DispatchedOnce(t)
                             ELSE thr[t].pc = "idle" /\ IntentCalls(t) = {})
    /\ \A t \in Threads : IntentsPending(t) ~> ~IntentsPending(t)

\* C14: a send with a detected action and a send without one were both accepted,
\* both started a chat request and the detected action has been dispatched
C14_Witness ==
    /\ turn = 2
    /\ history[1].fired /\ ~history[2].fired
    /\ thr[1].pc # "idle" /\ thr[2].pc # "idle"
    /\ IntentCalls(1) # {}

\* C16: when stream completes normally (a done record or the end of the response,
\* no cancellation), on_done was invoked once and on_error never, one on_chunk
\* call was made per non-empty content of a well-formed record, and the
\* conversation gained, after the user message, exactly one assistant message
\* holding those contents joined in order, or nothing when they are empty; a line
\* that is blank or not JSON neither ends the stream nor invokes on_error: on_error
\* is invoked only for a wrong configuration or a failure of the backend.
C16_NormalCompletion ==
    /\ (history[1].outcome = "done" /\ ~history[1].seen) =>
          /\ thr[1].pc = "done"
          /\ history[1].ndone = 1
          /\ history[1].nerror = 0
          /\ history[1].nmnf = 0
          /\ history[1].nchunk = Len(yielded[1].got)
          /\ ui_queue[Len(ui_queue)].fn = "_finish_and_run_actions"
          /\ messages = IF join(yielded[1].got) # ""
                        THEN Append(Asked(1), Message("assistant", join(yielded[1].got), 1))
                        ELSE Asked(1)
    /\ (history[1].nerror > 0 /\ history[1].outcome # "config") => faults < MaxFaults
    /\ (yielded[1].skipped /\ history[1].outcome = "none") => thr[1].pc = "lines"

\* C16: a response with a line that was skipped and two fragments completed
C16_Witness ==
    /\ history[1].outcome = "done" /\ ~history[1].seen
    /\ yielded[1].skipped
    /\ Len(yielded[1].got) = 2
    /\ AssistantOf(1)

\* C16: a response without content completed
C16_WitnessEmpty ==
    /\ history[1].outcome = "done" /\ ~history[1].seen
    /\ yielded[1].got = <<>>
    /\ ~AssistantOf(1)

\* s is the first Len(s) elements of q
IsPrefix(s, q) == Len(s) <= Len(q) /\ s = SubSeq(q, 1, Len(s))

\* C15: the fragments of a response are delivered to on_chunk one call each, in
\* the order the records came, and while the reply bubble of a turn is shown its
\* text is the glyph followed by the fragments delivered so far, in that order, up
\* to those whose callback the UI thread has not run yet.
C15_BubbleShowsDelivered ==
    \A t \in Threads :
        /\ history[t].nchunk = Len(thr[t].full)
        /\ IsPrefix(thr[t].full, yielded[t].got)
        /\ bot_label = t =>
              \E k \in 0..Len(thr[t].full) :
                  label_text = PREFIX \o join(SubSeq(thr[t].full, 1, k))

(***************************************************************************)
(* ActionExecutor.run on its own: a thread started by _send or by          *)
(* _finish_and_run_actions holds a list of actions and runs it.            *)
(***************************************************************************)
\* the ways an entry of the denylist may be written in a command
CASINGS == {"lower", "upper", "title"}

\* entry d in casing c, inside a command
Cased(d, c) ==
    IF c = "lower" THEN d
    ELSE IF c = "upper" THEN "echo; " \o upper(d)
    ELSE UpperChar(Char(d, 1)) \o From(d, 2) \o " now"

\* commands that hold an entry of the denylist
DENIED == {Cased(DANGEROUS[i], c) : i \in 1..Len(DANGEROUS), c \in CASINGS}

\* the actions a list may hold: shell commands, denied or not, a known command, one
\* that ActionExecutor.run does not know
CALLS ==
    [cmd : {"SYSTEM_CMD"}, arg : DENIED \cup {"dir"}]
    \cup {Action("OPEN_URL", "https://x.test"), Action("FLY", "away")}

\* the lists of actions a thread may be started with
ACTION_LISTS == UNION {[1..n -> CALLS] : n \in 1..MaxActions}

\* the marker body the model writes for an action
Body(call) == " " \o lower(call.cmd) \o " | " \o call.arg

InitActions ==
    /\ settings = DefaultSettings
    /\ apps = APPS
    /\ messages = <<SystemMessage>>
    /\ top = TRUE
    /\ is_open = TRUE
    /\ is_streaming = FALSE
    /\ cancel_event = FALSE
    /\ bot_label = 0
    /\ label_text = ""
    /\ intents_fired = FALSE
    /\ send_btn = "send"
    /\ ui_queue = <<>>
    /\ turn = 1
    /\ thr = [t \in Threads |-> IF t = 1 THEN [IdleThread EXCEPT !.pc = "done"] ELSE IdleThread]
    /\ executed = {}
    /\ budget = 0
    /\ faults = MaxFaults
    /\ interrupts = 0
    /\ history = [t \in Threads |-> NoHistory]
    /\ yielded = [t \in Threads |-> NoLines]
    /\ \E list \in ACTION_LISTS, src \in {"intent", "marker"} :
          workers = {[src |-> src, by |-> 1,
                      todo |-> IF src = "intent" THEN list
                               ELSE [k \in 1..Len(list) |-> [str |-> Body(list[k])]]]}

NextActions == \E w \in workers : RunAction(w)

SpecActions == InitActions /\ [][NextActions]_vars

\* the command holds an entry of the denylist in one of the casings
HoldsDenied(command) == \E d \in DENIED : Contains(command, d)

\* C17: a call of ActionExecutor.run for SYSTEM_CMD whose argument holds an entry
\* of the denylist, in any casing, returns the blocked result and does not call
\* subprocess.run, whether a marker or a detected intent asked for it.
C17_DeniedNeverSpawns ==
    \A e \in executed :
        (e.cmd = "SYSTEM_CMD" /\ HoldsDenied(e.arg)) =>
            /\ e.result = "Blocked potentially dangerous command: " \o e.arg
            /\ ~e.spawn
            /\ ~e.raised

\* C17: a marker asked for a command that holds an entry in upper case, and a
\* command that holds none was run by the shell
C17_Witness ==
    /\ \E e \in executed :
          e.src = "marker" /\ e.cmd = "SYSTEM_CMD" /\ e.arg = "echo; SHUTDOWN" /\ ~e.spawn
    /\ \E e \in executed : e.cmd = "SYSTEM_CMD" /\ e.arg = "dir" /\ e.spawn

\* C18: no call of ActionExecutor.run raises to its caller: each returns a result
\* string, also for a command it does not know and for a handler that fails; and
\* every entry of a list is run, whatever the results of the entries before it.
C18_RunNeverRaises ==
    \A e \in executed :
        /\ ~e.raised
        /\ e.result # ""
        /\ e.cmd \notin COMMANDS => e.result = "Unknown action: " \o e.cmd
        /\ \A k \in 1..e.n : \E x \in executed : x.src = e.src /\ x.by = e.by /\ x.k = k

\* C18: the handler of the first action of a list failed, and the second action,
\* of a command that is not known, was run and answered
C18_Witness ==
    \E e, x \in executed :
        /\ e.src = "marker" /\ x.src = "marker"
        /\ e.k = 1 /\ e.result = "Action failed"
        /\ x.k = 2 /\ x.cmd = "FLY" /\ x.result = "Unknown action: FLY"

(***************************************************************************)
(* IntentDetector.detect as _send calls it, over texts of the close/kill   *)
(* pattern written in parts, and texts of the other rules.                 *)
(***************************************************************************)
\* the parts of a text of the close/kill pattern: the verb as typed, the optional
\* words, the target and a final full stop
CLOSE_INPUTS ==
    [verb : {"close", "Kill", "STOP", "cierra"}, the : BOOLEAN, my : BOOLEAN,
     target : {"chrome", "Chrome browser", "notepad", "code", "zoom", "my zoom app"},
     dot : BOOLEAN]

\* the text typed for the parts
CloseText(in) ==
    " " \o in.verb \o "  " \o (IF in.the THEN "the " ELSE "") \o (IF in.my THEN "my  " ELSE "")
    \o in.target \o (IF in.dot THEN "." ELSE "") \o " "

\* texts with the rules of IntentDetector.detect whose condition each satisfies
RULE_CASES ==
    { [text |-> "close the screenshot", rules |-> {"close", "screenshot"}],
      [text |-> "stop search for *.pdf screenshot", rules |-> {"close", "screenshot"}],
      [text |-> "end search", rules |-> {"close"}],
      [text |-> "google screenshot", rules |-> {"screenshot", "search"}],
      [text |-> "Search for a screenshot *.png", rules |-> {"screenshot", "search", "find"}],
      [text |-> "open screenshot tool", rules |-> {"screenshot", "open"}],
      [text |-> "Take a Screenshot", rules |-> {"screenshot"}],
      [text |-> "search *.pdf", rules |-> {"search", "find"}],
      [text |-> "find *.txt", rules |-> {"find"}],
      [text |-> "look for notes.doc", rules |-> {"find"}],
      [text |-> "launch notepad", rules |-> {"open"}],
      [text |-> "find my keys", rules |-> {}],
      [text |-> "find open.txt", rules |-> {}],
      [text |-> "close", rules |-> {}] }

\* the inputs the documentation of IntentDetector gives, with the list for each
DOCUMENTED ==
    { [text |-> "open youtube", list |-> <<Action("OPEN_URL", "https://www.youtube.com")>>],
      [text |-> "find pdf files", list |-> <<Action("FIND_FILE", "*.pdf")>>],
      [text |-> "take a screenshot", list |-> <<Action("SCREENSHOT", "")>>],
      [text |-> "hello, how are you?", list |-> <<>>] }

\* texts of the open rule, the target each captures and the kinds the target is
\* of: a literal address, one that holds a site keyword, a folder keyword, one
\* that looks like a path, one that matches a known application
OPEN_CASES ==
    { [text |-> "open https://youtube.com/home", target |-> "https://youtube.com/home",
       kinds |-> {"url", "site", "folder", "path"}],
      [text |-> "Open www.x.test", target |-> "www.x.test", kinds |-> {"url", "site"}],
      [text |-> "open youtube downloads", target |-> "youtube downloads",
       kinds |-> {"site", "folder"}],
      [text |-> "open spotify", target |-> "spotify", kinds |-> {"site", "app"}],
      [text |-> "navigate to github", target |-> "github", kinds |-> {"site"}],
      [text |-> "open downloads/code", target |-> "downloads/code",
       kinds |-> {"folder", "path", "app"}],
      [text |-> "go to the my Pictures.", target |-> "pictures", kinds |-> {"folder"}],
      [text |-> "open c:/chrome", target |-> "c:/chrome", kinds |-> {"path", "app"}],
      [text |-> "open the my ~/d.", target |-> "~/d", kinds |-> {"path"}],
      [text |-> "start chrome browser", target |-> "chrome browser", kinds |-> {"app"}],
      [text |-> "launch notepad", target |-> "notepad", kinds |-> {"app"}],
      [text |-> "open zoom", target |-> "zoom", kinds |-> {}] }

\* the texts sent: of the close/kill pattern, of the open rule, and of no rule
DETECT_TEXTS ==
    {CloseText(in) : in \in CLOSE_INPUTS} \cup {"open code", "open youtube", " hello "}
    \cup {c.text : c \in RULE_CASES} \cup {d.text : d \in DOCUMENTED}
    \cup {c.text : c \in OPEN_CASES}
    \cup {"open " \o APPS[i] : i \in 1..Len(APPS)}

InitDetect == InitIntents

NextDetect ==
    \/ \E text \in DETECT_TEXTS : Send(text)
    \/ \E w \in workers : RunAction(w)

SpecDetect == InitDetect /\ [][NextDetect]_vars

\* the list detect returned for the text of send t: the one its thread holds, or
\* the one it ran
Detected(t) ==
    IF IntentsPending(t)
    THEN (CHOOSE w \in workers : w.src = "intent" /\ w.by = t).todo
    ELSE LET ran == {e \in executed : e.src = "intent" /\ e.by = t}
         IN [k \in {e.k : e \in ran} |->
                LET e == CHOOSE x \in ran : x.k = k IN Action(e.cmd, e.arg)]

\* C19: the actions detect returned for the text of a send are those it returns
\* for that text under every order in which the known-app set may be iterated.
C19_DetectIgnoresOrder ==
    \A t \in Threads :
        thr[t].pc # "idle" =>
            \A o \in APP_ORDERS : \E exists \in BOOLEAN :
                Detected(t) = detect(thr[t].text, o, exists)

\* the names of the known-app set that contain target or are contained in it
KnownFor(target) ==
    {APPS[k] : k \in {i \in 1..Len(APPS) : Contains(target, APPS[i]) \/ Contains(APPS[i], target)}}

\* the target of the parts: after the optional words written in the parts, lower-cased
Captured(in) ==
    IF in.my \/ ~StartsWith(in.target, "my ") THEN lower(in.target)
    ELSE lower(From(in.target, 4))

\* what the close/kill rule is to return for the parts
CloseAsClaimed(in, todo) ==
    /\ Len(todo) = 1
    /\ todo[1].cmd = "CLOSE_APP"
    /\ IF KnownFor(Captured(in)) # {}
       THEN todo[1].arg \in KnownFor(Captured(in))
       ELSE todo[1].arg = Captured(in)

\* C20: for a text of the close/kill pattern detect returns exactly one action,
\* CLOSE_APP; its argument is a name of the known-app set that contains the target
\* or is contained in it when there is one, and the target otherwise.
C20_CloseNamesKnownApp ==
    \A t \in Threads : \A in \in CLOSE_INPUTS :
        (thr[t].pc # "idle" /\ thr[t].text = strip(CloseText(in))) =>
            CloseAsClaimed(in, Detected(t))

\* C20: a send whose target holds a known name gave that name and not the
\* fragment
C20_Witness ==
    \E t \in Threads :
        /\ thr[t].text = "Kill  the my  Chrome browser."
        /\ ~IntentsPending(t)
        /\ Detected(t) \in {<<Action("CLOSE_APP", "chrome")>>, <<Action("CLOSE_APP", "google chrome")>>}

\* C20: a send whose target matches no known name gave the target
C20_WitnessRaw ==
    \E t \in Threads :
        /\ thr[t].text = "close  my zoom app."
        /\ ~IntentsPending(t)
        /\ Detected(t) = <<Action("CLOSE_APP", "zoom app")>>

\* the rules of IntentDetector.detect in the order of the code
RULES == <<"close", "screenshot", "search", "find", "open">>

\* the commands a rule returns
CommandsOf(rule) ==
    IF rule = "close" THEN {"CLOSE_APP"}
    ELSE IF rule = "screenshot" THEN {"SCREENSHOT"}
    ELSE IF rule = "search" THEN {"SEARCH_WEB"}
    ELSE IF rule = "find" THEN {"FIND_FILE"}
    ELSE {"OPEN_URL", "OPEN_FOLDER", "OPEN_APP"}

\* the condition under which a rule returns, on the lower-cased and stripped text
RuleApplies(rule, lo) ==
    IF rule = "close" THEN AfterVerb(lo, CLOSE_VERBS) # 0
    ELSE IF rule = "screenshot" THEN IsScreenshot(lo)
    ELSE IF rule = "search" THEN AfterVerb(lo, SEARCH_VERBS) # 0
    ELSE IF rule = "find" THEN find_applies(lo)
    ELSE AfterVerb(lo, OPEN_VERBS) # 0

\* the first rule of RULES among rules, 0 when rules is empty
FirstRule(rules) ==
    LET ks == {k \in 1..Len(RULES) : RULES[k] \in rules}
    IN IF ks = {} THEN 0 ELSE CHOOSE m \in ks : \A n \in ks : m <= n

\* the list is what the first rule among rules returns: one action of that rule,
\* or no action when no rule applies
ByFirstRule(list, rules) ==
    IF FirstRule(rules) = 0 THEN list = <<>>
    ELSE Len(list) = 1 /\ list[1].cmd \in CommandsOf(RULES[FirstRule(rules)])

\* C21: for the text of every send, detect returns at most one action; it is the
\* action of the first rule, in the order close/kill, screenshot, web search,
\* file find, open, whose condition the text satisfies, and the empty list when
\* the text satisfies none; the rules a text of RULE_CASES satisfies are those
\* listed there.
C21_RulePrecedence ==
    \A t \in Threads :
        thr[t].pc # "idle" =>
            LET lo == strip(lower(thr[t].text))
                list == Detected(t)
            IN /\ Len(list) <= 1
               /\ ByFirstRule(list, {r \in {RULES[k] : k \in 1..Len(RULES)} : RuleApplies(r, lo)})
               /\ \A c \in RULE_CASES : thr[t].text = strip(c.text) => ByFirstRule(list, c.rules)

\* C21: texts that satisfy two rules got the action of the earlier one, and a text
\* that satisfies none got no action
C21_Witness ==
    \E t \in Threads :
        \/ thr[t].text = "google screenshot" /\ Detected(t) = <<Action("SCREENSHOT", "")>>
        \/ thr[t].text = "close the screenshot" /\ Detected(t) = <<Action("CLOSE_APP", "screenshot")>>

\* C22: for each documented input, detect returns the documented list: one
\* OPEN_URL with the address of YouTube for 'open youtube', one FIND_FILE with
\* *.pdf for 'find pdf files', one SCREENSHOT with empty argument for 'take a
\* screenshot', and no action for 'hello, how are you?'.
C22_DocumentedInputs ==
    \A t \in Threads : \A d \in DOCUMENTED :
        (thr[t].pc # "idle" /\ thr[t].text = d.text) => Detected(t) = d.list

\* C22: 'find pdf files' was sent and its action ran with the glob form
C22_Witness ==
    \E t \in Threads :
        /\ thr[t].text = "find pdf files"
        /\ \E e \in executed :
              e.src = "intent" /\ e.by = t /\ e.cmd = "FIND_FILE" /\ e.arg = "*.pdf"

\* the addresses of the sites whose keyword is in target
SitesIn(target) == {SITES[k][2] : k \in {i \in 1..Len(SITES) : Contains(target, SITES[i][1])}}

\* the paths of the folders whose keyword is in target
FoldersIn(target) ==
    {FOLDERS[k][2] : k \in {i \in 1..Len(FOLDERS) : Contains(target, FOLDERS[i][1])}}

\* the kinds of OPEN_CASES in the order the open rule tries them
KINDS == <<"url", "site", "folder", "path", "app">>

\* the first of KINDS among kinds, "" when kinds is empty
FirstKind(kinds) ==
    LET ks == {k \in 1..Len(KINDS) : KINDS[k] \in kinds}
    IN IF ks = {} THEN "" ELSE KINDS[CHOOSE m \in ks : \A n \in ks : m <= n]

\* the lists the open rule may return for a case, by the first kind of its target
OpenAsClaimed(c) ==
    LET kind == FirstKind(c.kinds)
    IN IF kind = "url" THEN {<<Action("OPEN_URL", c.target)>>}
       ELSE IF kind = "site" THEN {<<Action("OPEN_URL", u)>> : u \in SitesIn(c.target)}
       ELSE IF kind = "folder" THEN {<<Action("OPEN_FOLDER", f)>> : f \in FoldersIn(c.target)}
       ELSE IF kind = "path"
       THEN {<<Action("OPEN_FOLDER", expanduser(c.target))>>, <<Action("OPEN_APP", c.target)>>}
       ELSE IF kind = "app" THEN {<<Action("OPEN_APP", n)>> : n \in KnownFor(c.target)}
       ELSE {<<Action("OPEN_APP", c.target)>>}

\* C23: for a text of the open rule, detect returns the action of the first kind
\* its target is of, in the order literal address, site keyword, folder keyword,
\* path, known application, and OPEN_APP with the target when it is of none; for
\* a path it returns OPEN_FOLDER when the path exists and OPEN_APP with the target
\* when it does not.
C23_OpenSubOrder ==
    \A t \in Threads : \A c \in OPEN_CASES :
        (thr[t].pc # "idle" /\ thr[t].text = strip(c.text)) =>
            /\ Detected(t) \in OpenAsClaimed(c)
            /\ FirstKind(c.kinds) = "path" =>
                  /\ detect(thr[t].text, apps, TRUE) = <<Action("OPEN_FOLDER", expanduser(c.target))>>
                  /\ detect(thr[t].text, apps, FALSE) = <<Action("OPEN_APP", c.target)>>

\* C23: a target that holds a folder keyword, looks like a path and holds the name
\* of a known application was opened as the folder
C23_Witness ==
    \E t \in Threads :
        /\ thr[t].text = "open downloads/code"
        /\ Detected(t) = <<Action("OPEN_FOLDER", HOME \o "/Downloads")>>

\* C23: a path that exists was opened as a folder
C23_WitnessPath ==
    \E t \in Threads :
        /\ thr[t].text = "open the my ~/d."
        /\ Detected(t) = <<Action("OPEN_FOLDER", HOME \o "/d")>>

\* C30: for every name of the known-application set, detect on 'open ' followed
\* by the name returns exactly one action, and it is OPEN_APP.
C30_KnownAppOpensApp ==
    \A t \in Threads : \A i \in 1..Len(APPS) :
        (thr[t].pc # "idle" /\ thr[t].text = "open " \o APPS[i]) =>
            /\ Len(Detected(t)) = 1
            /\ Detected(t)[1].cmd = "OPEN_APP"

\* the commands that run a shell command or send keystrokes
SENSITIVE == {"SYSTEM_CMD", "TYPE_TEXT"}

\* C29: no list detect returned holds a SYSTEM_CMD or TYPE_TEXT action, and every
\* call of ActionExecutor.run for one of the two was made for a marker of the
\* reply to a send for whose text detect returned no action.
C29_ShellOnlyFromMarker ==
    /\ \A w \in workers :
          w.src = "intent" => \A k \in 1..Len(w.todo) : w.todo[k].cmd \notin SENSITIVE
    /\ \A e \in executed :
          e.cmd \in SENSITIVE =>
              /\ e.src = "marker"
              /\ \A t \in Threads : e.arg = MarkerArg(t) => ~history[t].fired

(***************************************************************************)
(* ActionExecutor._find_file on its own: the three directories it searches *)
(* exist or not and hold some number of files that match the pattern.      *)
(***************************************************************************)
\* search_dirs
SEARCH_DIRS == <<HOME \o "/Desktop", HOME \o "/Documents", HOME \o "/Downloads">>

\* found[:20], results >= 30, results[:10]
PerDir == 20
Enough == 30
Shown == 10

\* the numbers of matches a directory may hold
COUNTS == {0, 9, 10, 11, 20, MaxFound}

\* what the file system may hold: for each directory whether it exists and how
\* many files under it match
FILE_SYSTEMS == [1..Len(SEARCH_DIRS) -> [exists : BOOLEAN, n : COUNTS]]

Min(a, b) == IF a <= b THEN a ELSE b

\* glob.glob(os.path.join(d, "**", pattern), recursive=True) for directory i
glob(fs, i) == [k \in 1..fs[i].n |-> [dir |-> SEARCH_DIRS[i], k |-> k]]

\* the loop over search_dirs, from directory i on, with results so far
RECURSIVE collect(_, _, _)
collect(fs, i, results) ==
    IF i > Len(SEARCH_DIRS) THEN results
    ELSE LET next == IF fs[i].exists
                     THEN results \o SubSeq(glob(fs, i), 1, Min(PerDir, fs[i].n))
                     ELSE results
         IN IF Len(next) >= Enough THEN next ELSE collect(fs, i + 1, next)

\* ActionExecutor._find_file: the number it reports as found, the files it
\* lists, and the number it reports as 'more' (0 when it adds no such line)
find_file(pattern, fs) ==
    LET results == collect(fs, 1, <<>>)
    IN IF results = <<>>
       THEN [pattern |-> pattern, none |-> TRUE, results |-> results, found |-> 0,
             display |-> <<>>, more |-> 0]
       ELSE [pattern |-> pattern, none |-> FALSE, results |-> results, found |-> Len(results),
             display |-> SubSeq(results, 1, Min(Shown, Len(results))),
             more |-> IF Len(results) > Shown THEN Len(results) - Shown ELSE 0]

\* the call of _find_file by the thread w, whose file system is w.fs
FindFile(w) ==
    /\ w \in workers
    /\ w.src = "find"
    /\ executed' = executed \cup {[src |-> "find", by |-> w.by, fs |-> w.fs,
                                   out |-> find_file(w.todo[1].arg, w.fs)]}
    /\ workers' = workers \ {w}
    /\ UNCHANGED <<settings, apps, yielded, messages, window_vars, ui_queue, turn, thr,
                   history, budget, faults, interrupts>>

InitFind ==
    /\ settings = DefaultSettings
    /\ apps = APPS
    /\ messages = <<SystemMessage>>
    /\ top = TRUE
    /\ is_open = TRUE
    /\ is_streaming = FALSE
    /\ cancel_event = FALSE
    /\ bot_label = 0
    /\ label_text = ""
    /\ intents_fired = FALSE
    /\ send_btn = "send"
    /\ ui_queue = <<>>
    /\ turn = 1
    /\ thr = [t \in Threads |-> IF t = 1 THEN [IdleThread EXCEPT !.pc = "done"] ELSE IdleThread]
    /\ executed = {}
    /\ budget = 0
    /\ faults = 0
    /\ interrupts = 0
    /\ history = [t \in Threads |-> NoHistory]
    /\ yielded = [t \in Threads |-> NoLines]
    /\ \E fs \in FILE_SYSTEMS :
          workers = {[src |-> "find", by |-> 1, todo |-> <<Action("FIND_FILE", "*.pdf")>>,
                      fs |-> fs]}

NextFind == \E w \in workers : FindFile(w)

SpecFind == InitFind /\ [][NextFind]_vars

\* the entries of results that come from directory i
FromDir(results, i) == {k \in 1..Len(results) : results[k].dir = SEARCH_DIRS[i]}

\* C24: _find_file collects at most 20 matches from each directory and at most 30
\* in total, lists at most 10 of them, and when it collected more than 10 reports
\* the collected number minus 10 as the remainder.
C24_FindFileLimits ==
    \A e \in executed :
        e.src = "find" =>
            /\ \A i \in 1..Len(SEARCH_DIRS) : Cardinality(FromDir(e.out.results, i)) <= 20
            /\ Len(e.out.results) <= 30
            /\ Len(e.out.display) <= 10
            /\ Len(e.out.results) > 10 => e.out.more = Len(e.out.results) - 10

\* the limits _find_file does keep: 20 from each directory, 10 listed, the
\* remainder as reported
C24_KeptLimits ==
    \A e \in executed :
        e.src = "find" =>
            /\ \A i \in 1..Len(SEARCH_DIRS) : Cardinality(FromDir(e.out.results, i)) <= 20
            /\ Len(e.out.results) <= 49
            /\ Len(e.out.display) <= 10
            /\ Len(e.out.results) > 10 => e.out.more = Len(e.out.results) - 10

\* the number of times stream invoked on_done, on_error or on_model_not_found for
\* send t
Terminal(t) == history[t].ndone + history[t].nerror + history[t].nmnf

\* C25: a call of OllamaChat.stream returns, and when it has returned it has
\* invoked exactly one of on_done, on_error and on_model_not_found, once; before
\* it returns it has invoked none.
C25_OneTerminalCallback ==
    /\ [](Terminal(1) = IF thr[1].pc = "done" THEN 1 ELSE 0)
    /\ <>(thr[1].pc = "done")

\* C25: the call returned after the loop saw the event set, having delivered a
\* fragment before, and invoked on_done alone
C25_Witness ==
    /\ thr[1].pc = "done"
    /\ history[1].seen
    /\ history[1].nchunk > 0
    /\ history[1].ndone = 1 /\ history[1].nerror = 0 /\ history[1].nmnf = 0

(***************************************************************************)
(* The chat window kept open: the user sends, stops and clears; the stream *)
(* threads and the UI thread are scheduled.                                *)
(***************************************************************************)
InitLive ==
    /\ settings = DefaultSettings
    /\ apps = APPS
    /\ messages = <<SystemMessage>>
    /\ top = TRUE
    /\ is_open = TRUE
    /\ is_streaming = FALSE
    /\ cancel_event = FALSE
    /\ bot_label = 0
    /\ label_text = ""
    /\ intents_fired = FALSE
    /\ send_btn = "send"
    /\ ui_queue = <<>>
    /\ turn = 0
    /\ thr = [t \in Threads |-> IdleThread]
    /\ workers = {}
    /\ executed = {}
    /\ budget = MaxLiveRecords
    /\ faults = MaxFaults
    /\ interrupts = MaxInterrupts
    /\ history = [t \in Threads |-> NoHistory]
    /\ yielded = [t \in Threads |-> NoLines]

NextLive ==
    \/ \E text \in USER_TEXTS : Send(text)
    \/ Cancel
    \/ Clear
    \/ UiStep
    \/ \E t \in Threads : Stream(t)

\* the threads _send starts run until stream returns, the backend delivers a line
\* or ends the response, and the Tk main loop runs the callbacks queued with after
SpecLive ==
    /\ InitLive
    /\ [][NextLive]_vars
    /\ \A t \in Threads : WF_vars(Stream(t))
    /\ WF_vars(UiStep)

\* a send is accepted again
Accepting == top /\ ~is_streaming /\ send_btn = "send"

\* C26: with the window kept open, every accepted send is eventually followed by
\* a state in which the window is not streaming and accepts a send, also when the
\* user pressed stop or clear in between.
C26_SendEventuallyFinishes ==
    \A t \in Threads : (turn = t /\ is_streaming) ~> Accepting

\* C26: the user pressed stop, the loop saw the event set, and the window accepts
\* a send again
C26_Witness ==
    \E t \in Threads :
        /\ history[t].stopped /\ history[t].seen
        /\ turn = t
        /\ thr[t].pc = "done"
        /\ ui_queue = <<>>
        /\ Accepting

\* C27: every assistant message of the conversation comes right after the user
\* message of its own send; so the text of a stream that was running when clear
\* was pressed is not in the cleared conversation.
C27_AssistantFollowsUser ==
    \A i \in 1..Len(messages) :
        messages[i].role = "assistant" =>
            /\ i > 1
            /\ messages[i - 1].role = "user"
            /\ messages[i - 1].turn = messages[i].turn

\* the UI thread runs the callback at the head of the queue
UiTaken == top /\ top' /\ ui_queue # <<>> /\ Len(ui_queue') = Len(ui_queue) - 1

\* the step leaves the reply bubble, the streaming state and the local-intent flag
\* of the window as they are
TurnUntouched ==
    /\ label_text' = label_text
    /\ bot_label' = bot_label
    /\ is_streaming' = is_streaming
    /\ intents_fired' = intents_fired

\* C28: a callback queued by the stream of one send (a fragment, a completion, an
\* error) changes nothing of the window once a later send was accepted: not its
\* reply bubble, not its streaming state, not its local-intent flag.
C28_CallbacksStayInTurn ==
    [][(UiTaken /\ Head(ui_queue).t < turn) => TurnUntouched]_vars

====
